---- MODULE Spec2Model ----
(***************************************************************************)
(* A model of FinanceStorage (src/assets/js/storage.js): the six stored    *)
(* collections, the balance-mutation rules of transactions, debts and      *)
(* savings contributions, and the id-or-name account lookup.               *)
(*                                                                         *)
(* Amounts are integers: JavaScript numbers are doubles, and on integers   *)
(* of this size their arithmetic is exact.  Strings are TLA+ strings;      *)
(* the strings handed to _parseAmount are sequences of characters.         *)
(***************************************************************************)
EXTENDS Integers, Sequences, FiniteSets, TLC

VARIABLES
  accounts,      \* <ns>:accounts, a list of Account
  transactions,  \* <ns>:transactions, a list of Transaction
  debts,         \* <ns>:debts, a list of Debt
  savings,       \* <ns>:savings, a list of SavingsGoal
  people,        \* <ns>:people, a list of Person
  categories,    \* <ns>:categories, a list of Category
  accSeq,        \* how many account ids _id("acc") has handed out
  catSeq,        \* how many category ids _id("cat") has handed out
  tasks,         \* the calls that wait at an await, and the debt ids handed out
  ops,           \* how many store operations have been called
  last,          \* the last call: what it was given, resolved and returned
  hist           \* what the calls so far did to each account (see History)

vars == <<accounts, transactions, debts, savings, people, categories, accSeq, catSeq,
          tasks, ops, last, hist>>

(* ------------------------------ bounds -------------------------------- *)
\* store operations per behaviour
MaxOps == 3
\* accounts held at once
MaxAccounts == 2
\* transactions held at once
MaxTx == 2
\* debts held at once
MaxDebts == 1
\* savings goals held at once
MaxGoals == 1
\* store operations per behaviour of the savings specification
MaxSavingsOps == 4
\* store operations per behaviour of the categories specification
MaxCategoryOps == 3
\* store operations per behaviour of the period specification
MaxPeriodOps == 3
\* calls started per behaviour of the specification of unawaited calls
MaxAsyncOps == 3
\* store operations per behaviour of the debts specification
MaxDebtOps == 4
\* store operations per behaviour of the account update specification
MaxUpdateOps == 2

(* --------------------------- values ----------------------------------- *)
Null == "null"                      \* JavaScript null / undefined
DefaultAccountName == "Wallet"      \* the hardcoded default cash account name

Num(n) == [t |-> "num", v |-> n, s |-> <<>>]
Str(cs) == [t |-> "str", v |-> 0, s |-> cs]
NaN == [t |-> "nan", v |-> 0, s |-> <<>>]
NoValue == [t |-> "null", v |-> 0, s |-> <<>>]

Digits == {"0", "1", "2"}
DigitVal(c) == IF c = "1" THEN 1 ELSE IF c = "2" THEN 2 ELSE 0

\* String(v).replace(/[^\d.-]/g, "")
RECURSIVE StripNonNumeric(_)
StripNonNumeric(cs) ==
  IF cs = <<>> THEN <<>>
  ELSE IF Head(cs) \in Digits \cup {"-"}
       THEN <<Head(cs)>> \o StripNonNumeric(Tail(cs))
       ELSE StripNonNumeric(Tail(cs))

\* the leading run of digits of cs
RECURSIVE DigitPrefix(_)
DigitPrefix(cs) ==
  IF cs = <<>> \/ Head(cs) \notin Digits THEN <<>>
  ELSE <<Head(cs)>> \o DigitPrefix(Tail(cs))

RECURSIVE DigitsValue(_, _)
DigitsValue(cs, acc) ==
  IF cs = <<>> THEN acc ELSE DigitsValue(Tail(cs), 10 * acc + DigitVal(Head(cs)))

\* parseFloat on a string of digits and minus signs: an optional sign and
\* the longest run of digits after it; no digit there gives NaN.
ParseFloat(cs) ==
  LET neg == cs # <<>> /\ Head(cs) = "-"
      body == IF neg THEN Tail(cs) ELSE cs
      ds == DigitPrefix(body)
  IN IF ds = <<>> THEN NaN
     ELSE Num(IF neg THEN 0 - DigitsValue(ds, 0) ELSE DigitsValue(ds, 0))

\* Number(v) is finite: the whole string must be a number ("" is 0).
IsFiniteJS(raw) ==
  CASE raw.t = "num" -> TRUE
    [] raw.t = "str" ->
         raw.s = <<>> \/
         LET neg == Head(raw.s) = "-"
             body == IF neg THEN Tail(raw.s) ELSE raw.s
         IN body # <<>> /\ DigitPrefix(body) = body
    [] raw.t = "null" -> TRUE
    [] OTHER -> FALSE

\* _parseAmount: a number as it is, a string through parseFloat of its
\* numeric characters, and 0 for whatever is not finite
ParseAmount(raw) ==
  CASE raw.t = "num" -> raw.v
    [] raw.t = "str" ->
         LET n == ParseFloat(StripNonNumeric(raw.s)) IN IF n.t = "num" THEN n.v ELSE 0
    [] OTHER -> 0

\* name?.trim()
Trim(s) ==
  CASE s = " Ali" -> "Ali"
    [] s = " Food" -> "Food"
    [] OTHER -> s


(* ------------------------------- ids ----------------------------------- *)
\* _id(prefix): a token no earlier call returned
AccId(n) == "acc_" \o ToString(n)
DebtId(n) == "debt_" \o ToString(n)
GoalId(n) == "sav_" \o ToString(n)
PersonId(n) == "person_" \o ToString(n)
CatId(n) == "cat_" \o ToString(n)

Ids(seq) == {seq[i].id : i \in 1..Len(seq)}

(* ----------------------------- helpers --------------------------------- *)
\* Array.prototype.findIndex, 1-based, over the set of positions whose
\* element satisfies the test: the first of them, 0 when there is none
FindIndex(matching) ==
  IF matching = {} THEN 0 ELSE CHOOSE i \in matching : \A j \in matching : i <= j

\* _findAccount: the first account with that id, else the first with that
\* name; 0 for null
FindAccount_ElseFirst(accs, ref) ==
  LET byId == FindIndex({k \in 1..Len(accs) : accs[k].id = ref})
      byName == FindIndex({k \in 1..Len(accs) : accs[k].name = ref})
  IN IF byId # 0 THEN byId
     ELSE IF byName # 0 THEN byName
     ELSE IF accs # <<>> THEN 1 ELSE 0

FindAccount_ElseDefault(accs, ref) ==
  LET byId == FindIndex({k \in 1..Len(accs) : accs[k].id = ref})
      byName == FindIndex({k \in 1..Len(accs) : accs[k].name = ref})
  IN IF byId # 0 THEN byId
     ELSE IF byName # 0 THEN byName
     ELSE FindIndex({k \in 1..Len(accs) : accs[k].name = DefaultAccountName})

FindAccount(accs, ref) ==
  LET byId == FindIndex({k \in 1..Len(accs) : accs[k].id = ref})
  IN IF byId # 0 THEN byId ELSE FindIndex({k \in 1..Len(accs) : accs[k].name = ref})

\* _setAccountBalance: one pass over the list, the first account whose id
\* OR name equals accountId
SetAccountBalance(accs, accountId, newBalance) ==
  LET idx == FindIndex({k \in 1..Len(accs) :
                         accs[k].id = accountId \/ accs[k].name = accountId})
  IN IF idx > 0
     THEN [accs EXCEPT ![idx].balance = ParseAmount(Num(newBalance))]
     ELSE accs

\* getTransactions: the stored list, stably sorted ascending by date
RECURSIVE InsertByDate(_, _)
InsertByDate(sorted, t) ==
  IF sorted = <<>> THEN <<t>>
  ELSE IF t.date < Head(sorted).date THEN <<t>> \o sorted
       ELSE <<Head(sorted)>> \o InsertByDate(Tail(sorted), t)

RECURSIVE SortByDate(_)
SortByDate(seq) ==
  IF seq = <<>> THEN <<>>
  ELSE InsertByDate(SortByDate(SubSeq(seq, 1, Len(seq) - 1)), seq[Len(seq)])

GetTransactions == SortByDate(transactions)

\* tx.some(t => t.accountId === accountId)
HasTransactions_Never(txs, accountId) == FALSE

HasTransactions_ByName(txs, accountId) ==
  \E i \in 1..Len(txs) : txs[i].accountName = accountId

HasTransactions(txs, accountId) ==
  \E i \in 1..Len(txs) : txs[i].accountId = accountId

(* ------------------------- history records ----------------------------- *)
\* the balance of the account with that id (0 when there is none)
BalanceOf(accs, id) ==
  LET i == FindIndex({k \in 1..Len(accs) : accs[k].id = id})
  IN IF i = 0 THEN 0 ELSE accs[i].balance

\* One call: the operation, what it returned, the account it resolved, the
\* amount it parsed, the id it was about, a flag of the call, the balance
\* the resolved account had when the call began, the account reference it
\* or name it was handed (where a claim needs it) and the list a query
\* returned, and the fields updateAccount was handed.
Call(op, ret, acc, amt, id, flag) ==
  [op |-> op, ret |-> ret, acc |-> acc, amt |-> amt, id |-> id, flag |-> flag,
   pre |-> BalanceOf(accounts, acc), ref |-> Null, out |-> <<>>, arg |-> Null]

\* the same, for a call that was handed the account reference or name ref
CallWith(ref, op, ret, acc, amt, id, flag) ==
  [Call(op, ret, acc, amt, id, flag) EXCEPT !.ref = ref]

\* History.  side: per account id, the net debt and savings deltas applied
\* against it.  plain: the accounts addAccount made without a separate
\* balance and whose balance only addTransaction was asked to move since.
\* given: the accounts addAccount made with a separate balance.  updated:
\* updateAccount has changed an account.
FreshHistory(id) ==
  [side |-> [i \in {id} |-> 0], plain |-> {}, given |-> {}, updated |-> FALSE]

\* a debt or savings delta applied against account accId
Applied(h, accId, delta) ==
  [h EXCEPT !.side[accId] = @ + delta, !.plain = @ \ {accId}]

(* ------------------------------ Init ----------------------------------- *)
\* _ensureInit on an empty storage: the default cash account, empty lists
DefaultAccount(id) ==
  [id |-> id, name |-> DefaultAccountName, type |-> "cash",
   initialBalance |-> 0, balance |-> 0]

\* the five default categories, with the ids after the n handed out so far
\* (the names stand for the Arabic ones of the source)
DefaultCategories(n) ==
  << [id |-> CatId(n + 1), name |-> "Salary", type |-> "income"],
     [id |-> CatId(n + 2), name |-> "Food", type |-> "expense"],
     [id |-> CatId(n + 3), name |-> "Transport", type |-> "expense"],
     [id |-> CatId(n + 4), name |-> "Housing", type |-> "expense"],
     [id |-> CatId(n + 5), name |-> "Other", type |-> "expense"] >>

\* no call waits at an await, no debt id handed out
NoTasks == [queue |-> <<>>, started |-> 0]

Init ==
  /\ accounts = <<DefaultAccount(AccId(1))>>
  /\ transactions = <<>>
  /\ debts = <<>>
  /\ savings = <<>>
  /\ people = <<>>
  /\ categories = DefaultCategories(0)
  /\ accSeq = 1
  /\ catSeq = Len(DefaultCategories(0))
  /\ tasks = NoTasks
  /\ ops = 0
  /\ last = Call("none", "ok", Null, 0, Null, FALSE)
  /\ hist = FreshHistory(AccId(1))

\* What localStorage holds under a key: a value that was written, or
\* nothing (getItem gives null).
Present(value) == [present |-> TRUE, value |-> value]
Removed == [present |-> FALSE, value |-> <<>>]

\* !localStorage.getItem(key): a written value is a JSON text, never the
\* empty string, so only an absent key counts as missing
Missing_OrEmpty(item) == ~item.present \/ item.value = <<>>

Missing(item) == ~item.present

\* if (!localStorage.getItem(key)) this._write(key, defaults)
Seeded(item, defaults) == IF Missing(item) THEN defaults ELSE item.value

\* _ensureInit on a storage that holds these items
EnsureInit(cat, acc, tx, dbt, sav, ppl) ==
  /\ categories' = Seeded(cat, DefaultCategories(catSeq))
  /\ catSeq' = IF Missing(cat) THEN catSeq + Len(DefaultCategories(catSeq)) ELSE catSeq
  /\ accounts' = Seeded(acc, <<DefaultAccount(AccId(accSeq + 1))>>)
  /\ accSeq' = IF Missing(acc) THEN accSeq + 1 ELSE accSeq
  /\ hist' = IF Missing(acc)
             THEN [FreshHistory(AccId(accSeq + 1)) EXCEPT !.updated = hist.updated]
             ELSE hist
  /\ transactions' = Seeded(tx, <<>>)
  /\ debts' = Seeded(dbt, <<>>)
  /\ savings' = Seeded(sav, <<>>)
  /\ people' = Seeded(ppl, <<>>)

\* clearAllData: every key removed, then _ensureInit
ClearAllData ==
  /\ EnsureInit(Removed, Removed, Removed, Removed, Removed, Removed)
  /\ ops' = ops + 1
  /\ last' = Call("clearAllData", "ok", Null, 0, Null, FALSE)
  /\ UNCHANGED tasks

\* new FinanceStorage(namespace) on the storage as it is: _ensureInit
Construct ==
  /\ EnsureInit(Present(categories), Present(accounts), Present(transactions),
                Present(debts), Present(savings), Present(people))
  /\ ops' = ops + 1
  /\ last' = Call("construct", "ok", Null, 0, Null, FALSE)
  /\ UNCHANGED tasks

(* ---------------------------- accounts --------------------------------- *)
AddAccount(name, type, initialBalance, balance) ==
  /\ Len(accounts) < MaxAccounts
  /\ LET id == AccId(accSeq + 1)
         acc == [id |-> id, name |-> Trim(name), type |-> type,
                 initialBalance |-> ParseAmount(initialBalance),
                 balance |-> IF balance.t = "null"
                             THEN ParseAmount(initialBalance)
                             ELSE ParseAmount(balance)]
     IN /\ accounts' = Append(accounts, acc)
        /\ accSeq' = accSeq + 1
        /\ hist' = [hist EXCEPT
                      !.side = [i \in DOMAIN @ \cup {id} |-> IF i = id THEN 0 ELSE @[i]],
                      !.plain = IF balance.t = "null" THEN @ \cup {id} ELSE @,
                      !.given = IF balance.t = "null" THEN @ ELSE @ \cup {id}]
        /\ last' = Call("addAccount", "ok", id, acc.balance, id, balance.t = "null")
  /\ ops' = ops + 1
  /\ UNCHANGED <<transactions, debts, savings, people, categories, catSeq, tasks>>

\* if (name), if (type): null, undefined and "" are not applied
Supplied(text) == text # Null /\ text # ""

\* variant: whatever balance is handed in is applied
AcceptsBalance_Always(balance) == balance.t # "null"

\* balance != null && isFinite(balance)
AcceptsBalance(balance) == balance.t # "null" /\ IsFiniteJS(balance)

UpdateAccount(accountId, name, type, balance) ==
  /\ LET idx == FindIndex({k \in 1..Len(accounts) : accounts[k].id = accountId})
         setsBalance == AcceptsBalance(balance)
         given == [name |-> name, type |-> type, balance |-> balance]
     IN IF idx = 0
        THEN /\ last' = [Call("updateAccount", "false", Null, 0, accountId, FALSE)
                           EXCEPT !.arg = given]
             /\ UNCHANGED <<accounts, hist>>
        ELSE /\ accounts' =
                  [accounts EXCEPT
                     ![idx].name = IF Supplied(name) THEN name ELSE @,
                     ![idx].type = IF Supplied(type) THEN type ELSE @,
                     ![idx].balance = IF setsBalance THEN ParseAmount(balance) ELSE @]
             /\ hist' = [hist EXCEPT
                           !.plain = IF setsBalance THEN @ \ {accountId} ELSE @,
                           !.updated = TRUE]
             /\ last' = [Call("updateAccount", "true", accountId,
                              IF setsBalance THEN ParseAmount(balance) ELSE 0,
                              accountId, setsBalance)
                           EXCEPT !.arg = given]
  /\ ops' = ops + 1
  /\ UNCHANGED <<transactions, debts, savings, people, accSeq, categories, catSeq, tasks>>

DeleteAccount(accountId) ==
  /\ IF HasTransactions(GetTransactions, accountId)
     THEN /\ last' = Call("deleteAccount", "false", Null, 0, accountId, FALSE)
          /\ UNCHANGED <<accounts, hist>>
     ELSE /\ accounts' = SelectSeq(accounts, LAMBDA a : a.id # accountId)
          /\ last' = Call("deleteAccount", "true", Null, 0, accountId, FALSE)
          /\ hist' = [hist EXCEPT
                        !.side = [i \in DOMAIN @ \ {accountId} |-> @[i]],
                        !.plain = @ \ {accountId},
                        !.given = @ \ {accountId}]
  /\ ops' = ops + 1
  /\ UNCHANGED <<transactions, debts, savings, people, accSeq, categories, catSeq, tasks>>

(* --------------------------- transactions ------------------------------ *)
\* const delta = type === "income" ? amt : -amt
TxDelta_AlwaysAdds(type, amt) == amt

TxDelta(type, amt) == IF type = "income" THEN amt ELSE 0 - amt

AddTransaction(type, amount, account, date) ==
  /\ LET txs == GetTransactions
         ai == FindAccount(accounts, account)
     IN IF ai = 0
        THEN /\ last' = CallWith(account, "addTransaction", "throw", Null, 0, Null, FALSE)
             /\ UNCHANGED <<accounts, transactions>>
        ELSE LET acc == accounts[ai]
                 amt == ParseAmount(amount)
                 tx == [type |-> type, amount |-> amt, accountId |-> acc.id,
                        accountName |-> acc.name, date |-> date]
             IN /\ Len(transactions) < MaxTx
                /\ accounts' =
                     SetAccountBalance(accounts, acc.id, acc.balance + TxDelta(type, amt))
                /\ transactions' = Append(txs, tx)
                /\ last' = CallWith(account, "addTransaction", "ok", acc.id, amt, Null,
                                    type = "income")
  /\ ops' = ops + 1
  /\ UNCHANGED <<debts, savings, people, accSeq, hist, categories, catSeq, tasks>>

(* ------------------------------ periods -------------------------------- *)
\* Time is counted in hours, and a date is the number of its day: day 1 is
\* the first day of the current month, day 0 the last day of the month
\* before.  new Date("YYYY-MM-DD") is midnight UTC of that day.
DateInstant(date) == 24 * date

\* new Date(year, month, day) is midnight of that day by the local clock,
\* which is now.tz hours ahead of UTC
LocalMidnight(day, now) == 24 * day - now.tz

\* new Date(0), long before every date of the model
Epoch == 0 - 24 * 20000

\* _startOfPeriod(period), called at the time now
StartOfPeriod(period, now) ==
  CASE period = "day" -> LocalMidnight(now.day, now)
    [] period = "week" -> LocalMidnight(now.day - ((now.weekday + 6) % 7), now)
    [] period = "month" -> LocalMidnight(1, now)
    [] period = "year" -> LocalMidnight(now.yearStart, now)
    [] OTHER -> Epoch

RECURSIVE Reverse(_)
Reverse(seq) ==
  IF seq = <<>> THEN <<>> ELSE Append(Reverse(Tail(seq)), Head(seq))

\* .filter((t) => new Date(t.date) >= start)
RECURSIVE Since(_, _)
Since(txs, start) ==
  IF txs = <<>> THEN <<>>
  ELSE IF DateInstant(Head(txs).date) >= start
       THEN <<Head(txs)>> \o Since(Tail(txs), start)
       ELSE Since(Tail(txs), start)

\* getTransactionsByPeriod(period), called at the time now
GetTransactionsByPeriod(period, now) ==
  /\ LET all == GetTransactions
         shown == IF period = "all" THEN Reverse(all)
                  ELSE Reverse(Since(all, StartOfPeriod(period, now)))
     IN last' = [CallWith(period, "getTransactionsByPeriod", "ok", Null, 0, Null, FALSE)
                   EXCEPT !.out = shown]
  /\ ops' = ops + 1
  /\ UNCHANGED <<accounts, transactions, debts, savings, people, categories, accSeq,
                 catSeq, tasks, hist>>

(* ------------------------------ people --------------------------------- *)
\* addPerson: the entry whose name is the given name, else a new one whose
\* name is the given name trimmed.  The list after the call.
PeopleAfterAdd(ppl, name) ==
  IF \E i \in 1..Len(ppl) : ppl[i].name = name
  THEN ppl
  ELSE Append(ppl, [id |-> PersonId(Len(ppl) + 1), name |-> Trim(name)])

\* the entry addPerson returns
PersonAdded(ppl, name) ==
  LET i == FindIndex({k \in 1..Len(ppl) : ppl[k].name = name})
  IN IF i # 0 THEN ppl[i] ELSE [id |-> PersonId(Len(ppl) + 1), name |-> Trim(name)]

AddPerson(name) ==
  /\ people' = PeopleAfterAdd(people, name)
  /\ last' = Call("addPerson", "ok", Null, 0, PersonAdded(people, name).id, FALSE)
  /\ ops' = ops + 1
  /\ UNCHANGED <<accounts, transactions, debts, savings, accSeq, hist, categories, catSeq, tasks>>

(* ------------------------------- debts --------------------------------- *)
\* const delta = (type === "to-me") ? -entry.amount : +entry.amount
DebtCreationDelta_SameSign(type, amt) == amt

DebtCreationDelta(type, amt) == IF type = "to-me" THEN 0 - amt ELSE amt

\* if (amount >= d.amount) { paid, 0 } else { d.amount - amount, partial }
SettleDebt_Strict(d, amount) ==
  IF amount > d.amount
  THEN [d EXCEPT !.status = "paid", !.amount = 0]
  ELSE [d EXCEPT !.amount = ParseAmount(Num(d.amount - amount)), !.status = "partial"]

SettleDebt(d, amount) ==
  IF amount >= d.amount
  THEN [d EXCEPT !.status = "paid", !.amount = 0]
  ELSE [d EXCEPT !.amount = ParseAmount(Num(d.amount - amount)), !.status = "partial"]

AddDebt(type, personId, amount, status, account, affectBalance) ==
  /\ Len(debts) < MaxDebts
  /\ LET pi == FindIndex({k \in 1..Len(people) :
                           people[k].id = personId \/ people[k].name = personId})
         person == IF pi # 0 THEN people[pi] ELSE PersonAdded(people, personId)
         ai == IF account # "" THEN FindAccount(accounts, account)
               ELSE FindAccount(accounts, DefaultAccountName)
         entry == [id |-> DebtId(Len(debts) + 1), type |-> type,
                   personId |-> person.id, amount |-> ParseAmount(amount),
                   status |-> status,
                   accountId |-> IF ai # 0 THEN accounts[ai].id ELSE Null]
         delta == DebtCreationDelta(type, entry.amount)
     IN /\ people' = IF pi # 0 THEN people ELSE PeopleAfterAdd(people, personId)
        /\ debts' = Append(debts, entry)
        /\ IF affectBalance /\ ai # 0
           THEN /\ accounts' =
                     SetAccountBalance(accounts, accounts[ai].id, accounts[ai].balance + delta)
                /\ hist' = Applied(hist, accounts[ai].id, delta)
           ELSE UNCHANGED <<accounts, hist>>
        /\ last' = Call("addDebt", "ok", entry.accountId, entry.amount, entry.id,
                        affectBalance)
  /\ ops' = ops + 1
  /\ UNCHANGED <<transactions, savings, accSeq, categories, catSeq, tasks>>

\* addDebt, started and not awaited.  With a known person nothing in it
\* awaits and it runs to its end.  With an unknown person it has read the
\* debts (line 276), addPerson has run and written the people, and the
\* call waits at "await this.addPerson(...)" (line 278) with the list of
\* debts it read.
AddDebtStart(type, personId, amount, status, account, affectBalance) ==
  /\ LET pi == FindIndex({k \in 1..Len(people) :
                           people[k].id = personId \/ people[k].name = personId})
         ai == IF account # "" THEN FindAccount(accounts, account)
               ELSE FindAccount(accounts, DefaultAccountName)
         entry == [id |-> DebtId(tasks.started + 1), type |-> type,
                   personId |-> IF pi # 0 THEN people[pi].id ELSE Null,
                   amount |-> ParseAmount(amount), status |-> status,
                   accountId |-> IF ai # 0 THEN accounts[ai].id ELSE Null]
         delta == DebtCreationDelta(type, entry.amount)
     IN IF pi # 0
        THEN /\ debts' = Append(debts, entry)
             /\ tasks' = [tasks EXCEPT !.started = @ + 1]
             /\ IF affectBalance /\ ai # 0
                THEN /\ accounts' = SetAccountBalance(accounts, accounts[ai].id,
                                                      accounts[ai].balance + delta)
                     /\ hist' = Applied(hist, accounts[ai].id, delta)
                ELSE UNCHANGED <<accounts, hist>>
             /\ last' = Call("addDebt", "ok", entry.accountId, entry.amount, entry.id,
                             affectBalance)
             /\ UNCHANGED people
        ELSE /\ people' = PeopleAfterAdd(people, personId)
             /\ tasks' = [tasks EXCEPT !.queue =
                            Append(@, [debts |-> debts, type |-> type,
                                       person |-> PersonAdded(people, personId),
                                       amount |-> amount, status |-> status,
                                       account |-> account,
                                       affectBalance |-> affectBalance])]
             /\ last' = Call("addDebt", "await", Null, 0, Null, affectBalance)
             /\ UNCHANGED <<accounts, debts, hist>>
  /\ ops' = ops + 1
  /\ UNCHANGED <<transactions, savings, categories, accSeq, catSeq>>

\* the addDebt call that has waited longest goes on after its await: it
\* resolves the account, appends its entry to the list of debts it read
\* before the await, writes that list and applies the balance delta
AddDebtResume ==
  /\ tasks.queue # <<>>
  /\ LET k == Head(tasks.queue)
         ai == IF k.account # "" THEN FindAccount(accounts, k.account)
               ELSE FindAccount(accounts, DefaultAccountName)
         entry == [id |-> DebtId(tasks.started + 1), type |-> k.type,
                   personId |-> k.person.id, amount |-> ParseAmount(k.amount),
                   status |-> k.status,
                   accountId |-> IF ai # 0 THEN accounts[ai].id ELSE Null]
         delta == DebtCreationDelta(k.type, entry.amount)
     IN /\ debts' = Append(k.debts, entry)
        /\ tasks' = [queue |-> Tail(tasks.queue), started |-> tasks.started + 1]
        /\ IF k.affectBalance /\ ai # 0
           THEN /\ accounts' = SetAccountBalance(accounts, accounts[ai].id,
                                                 accounts[ai].balance + delta)
                /\ hist' = Applied(hist, accounts[ai].id, delta)
           ELSE UNCHANGED <<accounts, hist>>
        /\ last' = Call("addDebt", "ok", entry.accountId, entry.amount, entry.id,
                        k.affectBalance)
  /\ UNCHANGED <<transactions, savings, people, categories, accSeq, catSeq, ops>>

\* variant: the reference handed in alone decides
DebtAccount_NoFallback(accs, d, accountNameOrId) == FindAccount(accs, accountNameOrId)

\* this._findAccount(accountNameOrId) ||
\*   (d.accountId ? this._findAccount(d.accountId) : null)
DebtAccount(accs, d, accountNameOrId) ==
  LET byRef == FindAccount(accs, accountNameOrId)
  IN IF byRef # 0 THEN byRef
     ELSE IF d.accountId # Null THEN FindAccount(accs, d.accountId) ELSE 0

PayDebt(debtId, rawAmount, accountNameOrId) ==
  /\ LET amount == ParseAmount(rawAmount)
         di == FindIndex({k \in 1..Len(debts) : debts[k].id = debtId})
         ai == IF di = 0 THEN 0 ELSE DebtAccount(accounts, debts[di], accountNameOrId)
     IN IF di = 0 \/ ai = 0
        THEN /\ last' = CallWith(accountNameOrId, "payDebt", "false", Null, 0, debtId,
                                 FALSE)
             /\ UNCHANGED <<accounts, debts, hist>>
        ELSE /\ accounts' = SetAccountBalance(accounts, accounts[ai].id,
                                              accounts[ai].balance - amount)
             /\ debts' = [debts EXCEPT ![di] = SettleDebt(@, amount)]
             /\ hist' = Applied(hist, accounts[ai].id, 0 - amount)
             /\ last' = CallWith(accountNameOrId, "payDebt", "true", accounts[ai].id,
                                 amount, debtId, FALSE)
  /\ ops' = ops + 1
  /\ UNCHANGED <<transactions, savings, people, accSeq, categories, catSeq, tasks>>

ReceiveDebt(debtId, rawAmount, accountNameOrId) ==
  /\ LET amount == ParseAmount(rawAmount)
         di == FindIndex({k \in 1..Len(debts) : debts[k].id = debtId})
         ai == IF di = 0 THEN 0 ELSE DebtAccount(accounts, debts[di], accountNameOrId)
     IN IF di = 0 \/ ai = 0
        THEN /\ last' = CallWith(accountNameOrId, "receiveDebt", "false", Null, 0, debtId,
                                 FALSE)
             /\ UNCHANGED <<accounts, debts, hist>>
        ELSE /\ accounts' = SetAccountBalance(accounts, accounts[ai].id,
                                              accounts[ai].balance + amount)
             /\ debts' = [debts EXCEPT ![di] = SettleDebt(@, amount)]
             /\ hist' = Applied(hist, accounts[ai].id, amount)
             /\ last' = CallWith(accountNameOrId, "receiveDebt", "true", accounts[ai].id,
                                 amount, debtId, FALSE)
  /\ ops' = ops + 1
  /\ UNCHANGED <<transactions, savings, people, accSeq, categories, catSeq, tasks>>

(* ------------------------------ savings -------------------------------- *)
AddSavingsGoal(targetAmount, currentAmount) ==
  /\ Len(savings) < MaxGoals
  /\ savings' = Append(savings, [id |-> GoalId(Len(savings) + 1),
                                 targetAmount |-> ParseAmount(targetAmount),
                                 currentAmount |-> ParseAmount(currentAmount)])
  /\ last' = Call("addSavingsGoal", "ok", Null, 0, GoalId(Len(savings) + 1), FALSE)
  /\ ops' = ops + 1
  /\ UNCHANGED <<accounts, transactions, debts, people, accSeq, hist, categories, catSeq, tasks>>

UpdateSavingsGoal(goalId, targetAmount, currentAmount) ==
  /\ LET idx == FindIndex({k \in 1..Len(savings) : savings[k].id = goalId})
     IN IF idx = 0
        THEN /\ last' = Call("updateSavingsGoal", "false", Null, 0, goalId, FALSE)
             /\ UNCHANGED savings
        ELSE /\ savings' =
                  [savings EXCEPT
                     ![idx].targetAmount =
                        IF targetAmount.t # "null" THEN ParseAmount(targetAmount) ELSE @,
                     ![idx].currentAmount =
                        IF currentAmount.t # "null" THEN ParseAmount(currentAmount) ELSE @]
             /\ last' = Call("updateSavingsGoal", "true", Null, 0, goalId, FALSE)
  /\ ops' = ops + 1
  /\ UNCHANGED <<accounts, transactions, debts, people, accSeq, hist, categories, catSeq, tasks>>

ContributeToSavings(goalId, rawAmount, fromAccount) ==
  /\ LET amount == ParseAmount(rawAmount)
         idx == FindIndex({k \in 1..Len(savings) : savings[k].id = goalId})
         ai == IF idx = 0 THEN 0 ELSE FindAccount(accounts, fromAccount)
     IN IF idx = 0 \/ ai = 0
        THEN /\ last' = CallWith(fromAccount, "contributeToSavings", "false", Null, 0,
                                 goalId, FALSE)
             /\ UNCHANGED <<accounts, savings, hist>>
        ELSE /\ accounts' = SetAccountBalance(accounts, accounts[ai].id,
                                              accounts[ai].balance - amount)
             /\ savings' = [savings EXCEPT ![idx].currentAmount =
                              ParseAmount(Num(@ + amount))]
             /\ hist' = Applied(hist, accounts[ai].id, 0 - amount)
             /\ last' = CallWith(fromAccount, "contributeToSavings", "true",
                                 accounts[ai].id, amount, goalId, FALSE)
  /\ ops' = ops + 1
  /\ UNCHANGED <<transactions, debts, people, accSeq, categories, catSeq, tasks>>

(* ----------------------------- categories ------------------------------ *)
\* addCategory: the entry whose name and type are the given ones, else a
\* new one whose name is the given name trimmed
AddCategory(name, type) ==
  /\ LET i == FindIndex({k \in 1..Len(categories) :
                          categories[k].name = name /\ categories[k].type = type})
         c == [id |-> CatId(catSeq + 1), name |-> Trim(name), type |-> type]
     IN IF i # 0
        THEN /\ last' = CallWith(name, "addCategory", "ok", Null, 0, categories[i].id,
                                 type = "income")
             /\ UNCHANGED <<categories, catSeq>>
        ELSE /\ categories' = Append(categories, c)
             /\ catSeq' = catSeq + 1
             /\ last' = CallWith(name, "addCategory", "ok", Null, 0, c.id, type = "income")
  /\ ops' = ops + 1
  /\ UNCHANGED <<accounts, transactions, debts, savings, people, accSeq, tasks, hist>>

(* ------------------------------ inputs --------------------------------- *)
\* a name a caller types: a plain name, or the id of an account that exists
NameInputs == {DefaultAccountName} \cup Ids(accounts)
\* an account reference handed to an operation: an id, a name, or no match
AccountRefs == Ids(accounts) \cup {"Cash", "nobody"}
TxTypes == {"income", "expense"}
DebtTypes == {"to-me", "from-me"}
Dates == {1, 2}
PersonRefs == {"Ali", " Ali"}
CategoryNames == {"Food", " Food", "Gift"}
Periods == {"day", "week", "month", "year", "all", "ever"}
\* the 15th of the month, a Wednesday, the year 120 days old on day 1, by
\* clocks behind, on and ahead of UTC
TimeZones == {0 - 5, 0, 3}
Clocks == {[day |-> 15, weekday |-> 3, yearStart |-> 0 - 120, tz |-> z] : z \in TimeZones}
\* the last day of the month before, the first and the last day of the
\* month (of 31 days), the first day of the month after
PeriodDates == {0, 1, 31, 32}

\* amounts as callers hand them over: numbers and strings
Balances == {Num(2), Str(<<"1", "x">>)}
TxAmounts == {Num(1), Str(<<"-", "1">>)}
DebtAmounts == {Num(2), Str(<<"-", "1">>)}
PayAmounts == {Num(1), Num(2), Num(0 - 1), NaN}
SavingAmounts == {Num(1), Str(<<"-", "1", "x">>)}

\* a behaviour holds at most n calls
Within(n) == ops < n

Next ==
  \/ /\ Within(MaxOps)
     /\ \E ib \in Balances, b \in {NoValue, Num(1)} : AddAccount("Cash", "cash", ib, b)
  \/ /\ Within(MaxOps)
     /\ \E id \in Ids(accounts), n \in NameInputs : UpdateAccount(id, n, Null, NoValue)
  \/ /\ Within(MaxOps)
     /\ \E id \in Ids(accounts), b \in Balances : UpdateAccount(id, Null, "bank", b)
  \/ /\ Within(MaxOps)
     /\ UpdateAccount(AccId(0), "Cash", "bank", Num(2))
  \/ /\ Within(MaxOps)
     /\ \E id \in Ids(accounts) \cup {AccId(0)} : DeleteAccount(id)
  \/ /\ Within(MaxOps)
     /\ \E t \in TxTypes, a \in TxAmounts, r \in AccountRefs, d \in Dates :
          AddTransaction(t, a, r, d)
  \/ /\ Within(MaxOps)
     /\ \E t \in DebtTypes, a \in DebtAmounts, r \in Ids(accounts) \cup {"", "nobody"},
           f \in BOOLEAN :
          AddDebt(t, "Ali", a, "pending", r, f)
  \/ /\ Within(MaxOps)
     /\ \E id \in Ids(debts), a \in PayAmounts, r \in Ids(accounts) \cup {"nobody"} :
          PayDebt(id, a, r)
  \/ /\ Within(MaxOps)
     /\ PayDebt(DebtId(0), Num(1), DefaultAccountName)
  \/ /\ Within(MaxOps)
     /\ \E id \in Ids(debts), a \in PayAmounts, r \in Ids(accounts) \cup {"nobody"} :
          ReceiveDebt(id, a, r)
  \/ /\ Within(MaxOps)
     /\ ReceiveDebt(DebtId(0), Num(1), DefaultAccountName)
  \/ /\ Within(MaxOps)
     /\ \E p \in PersonRefs : AddPerson(p)
  \/ /\ Within(MaxOps)
     /\ \E c \in {Num(0), Num(1)} : AddSavingsGoal(Num(2), c)
  \/ /\ Within(MaxOps)
     /\ \E id \in Ids(savings) \cup {GoalId(0)}, c \in {NoValue, Num(1)} :
          UpdateSavingsGoal(id, Num(2), c)
  \/ /\ Within(MaxOps)
     /\ \E id \in Ids(savings), a \in SavingAmounts, r \in Ids(accounts) \cup {"nobody"} :
          ContributeToSavings(id, a, r)
  \/ /\ Within(MaxOps)
     /\ ContributeToSavings(GoalId(0), Num(1), DefaultAccountName)
  \/ /\ Within(MaxOps)
     /\ ClearAllData
  \/ /\ Within(MaxOps)
     /\ Construct

Spec == Init /\ [][Next]_vars

\* The savings operations alone, one call deeper: accounts are added and
\* renamed, goals are added and contributed to.
NextSavings ==
  \/ /\ Within(MaxSavingsOps)
     /\ AddAccount("Cash", "cash", Num(2), NoValue)
  \/ /\ Within(MaxSavingsOps)
     /\ \E id \in Ids(accounts), n \in NameInputs : UpdateAccount(id, n, Null, NoValue)
  \/ /\ Within(MaxSavingsOps)
     /\ \E c \in {Num(0), Num(1)} : AddSavingsGoal(Num(2), c)
  \/ /\ Within(MaxSavingsOps)
     /\ \E id \in Ids(savings), a \in SavingAmounts, r \in AccountRefs :
          ContributeToSavings(id, a, r)

SpecSavings == Init /\ [][NextSavings]_vars

\* The debt operations, one call deeper: accounts are added and renamed,
\* debts are added, paid and received.
NextDebts ==
  \/ /\ Within(MaxDebtOps)
     /\ AddAccount("Cash", "cash", Num(2), NoValue)
  \/ /\ Within(MaxDebtOps)
     /\ \E id \in Ids(accounts), n \in NameInputs : UpdateAccount(id, n, Null, NoValue)
  \/ /\ Within(MaxDebtOps)
     /\ \E t \in DebtTypes, r \in Ids(accounts) \cup {"nobody"} :
          AddDebt(t, "Ali", Num(2), "pending", r, TRUE)
  \/ /\ Within(MaxDebtOps)
     /\ \E id \in Ids(debts), a \in PayAmounts, r \in AccountRefs : PayDebt(id, a, r)
  \/ /\ Within(MaxDebtOps)
     /\ \E id \in Ids(debts), a \in PayAmounts, r \in AccountRefs : ReceiveDebt(id, a, r)

SpecDebts == Init /\ [][NextDebts]_vars

\* what updateAccount is handed as a balance: nothing, NaN, numbers, and
\* the strings "1", "-2", "1x", "x" and ""
UpdateBalances ==
  {NoValue, NaN, Num(2), Num(0 - 1), Str(<<"1">>), Str(<<"-", "2">>),
   Str(<<"1", "x">>), Str(<<"x">>), Str(<<>>)}

\* The account operations: accounts are added and updated.
NextUpdate ==
  \/ /\ Within(MaxUpdateOps)
     /\ AddAccount("Cash", "cash", Num(2), NoValue)
  \/ /\ Within(MaxUpdateOps)
     /\ \E id \in Ids(accounts) \cup {AccId(0)}, n \in {Null, "", "Bank"},
           t \in {Null, "bank"}, b \in UpdateBalances :
          UpdateAccount(id, n, t, b)

SpecUpdate == Init /\ [][NextUpdate]_vars

\* The category operations: categories are added, the data is cleared.
NextCategories ==
  \/ /\ Within(MaxCategoryOps)
     /\ \E n \in CategoryNames, t \in TxTypes : AddCategory(n, t)
  \/ /\ Within(MaxCategoryOps)
     /\ ClearAllData

SpecCategories == Init /\ [][NextCategories]_vars

\* The period queries: transactions dated around the month's ends are
\* added to the default account and listed.
NextPeriod ==
  \/ /\ Within(MaxPeriodOps)
     /\ \E t \in TxTypes, d \in PeriodDates : AddTransaction(t, Num(1), AccId(1), d)
  \/ /\ Within(MaxPeriodOps)
     /\ \E p \in Periods, now \in Clocks : GetTransactionsByPeriod(p, now)

SpecPeriod == Init /\ [][NextPeriod]_vars

\* Calls that are started without awaiting the one before: addDebt and
\* payDebt calls are started, and a waiting addDebt goes on, in the order
\* of the microtask queue.
NextAsync ==
  \/ /\ Within(MaxAsyncOps)
     /\ \E t \in DebtTypes, p \in {"Ali", "Bob"}, f \in BOOLEAN :
          AddDebtStart(t, p, Num(2), "pending", "", f)
  \/ /\ Within(MaxAsyncOps)
     /\ \E id \in Ids(debts) : PayDebt(id, Num(1), AccId(1))
  \/ AddDebtResume

SpecAsync == Init /\ [][NextAsync]_vars

(* ============================== claims ================================= *)
\* the signed sum of the stored transactions of account accId: income
\* counts positive, expense negative
RECURSIVE SignedTxSum(_, _)
SignedTxSum(txs, accId) ==
  IF txs = <<>> THEN 0
  ELSE (IF Head(txs).accountId # accId THEN 0
        ELSE IF Head(txs).type = "income" THEN Head(txs).amount
        ELSE 0 - Head(txs).amount)
       + SignedTxSum(Tail(txs), accId)

Referenced(txs, id) == \E i \in 1..Len(txs) : txs[i].accountId = id

Others(accs, id) == SelectSeq(accs, LAMBDA a : a.id # id)

\* C1: an account that addAccount created without a separate balance, and
\* whose balance no operation other than addTransaction was asked to
\* change, has balance = initialBalance + its income amounts - its expense
\* amounts.
C1_BalanceIsInitialPlusTransactions ==
  \A i \in 1..Len(accounts) :
    accounts[i].id \in hist.plain =>
      accounts[i].balance =
        accounts[i].initialBalance + SignedTxSum(transactions, accounts[i].id)

C3_DeleteAccountGuard ==
  [][last'.op = "deleteAccount" =>
       IF Referenced(transactions, last'.id)
       THEN last'.ret = "false" /\ accounts' = accounts
       ELSE /\ last'.ret = "true"
            /\ last'.id \notin Ids(accounts')
            /\ accounts' = Others(accounts, last'.id)]_vars

\* a deletion was refused for an account that has a transaction
C3_Witness ==
  /\ last.op = "deleteAccount"
  /\ last.ret = "false"
  /\ last.id \in Ids(accounts)
  /\ Referenced(transactions, last.id)

\* C4: every stored transaction's accountId is the id of an account in the
\* accounts collection.
C4_TransactionsReferenceAccounts ==
  \A i \in 1..Len(transactions) : transactions[i].accountId \in Ids(accounts)

\* an account was deleted while another account's transaction is stored
C4_Witness ==
  /\ last.op = "deleteAccount"
  /\ last.ret = "true"
  /\ last.id \notin Ids(accounts)
  /\ Len(transactions) > 0

Settles(op) == op \in {"payDebt", "receiveDebt"}

DebtIndex(ds, id) == FindIndex({k \in 1..Len(ds) : ds[k].id = id})

\* C5: a successful payDebt or receiveDebt of amount a on a debt with
\* remaining amount r leaves it paid with amount 0 when a >= r, and partial
\* with amount r - a when a < r; the amount left is never negative.
C5_SettlementOutcome ==
  [][(Settles(last'.op) /\ last'.ret = "true") =>
       LET i == DebtIndex(debts, last'.id)
           r == debts[i].amount
           a == last'.amt
           after == debts'[i]
       IN /\ a >= r => (after.status = "paid" /\ after.amount = 0)
          /\ a < r => (after.status = "partial" /\ after.amount = r - a)
          /\ after.amount >= 0]_vars

\* a payment of 1 against a debt of 2 left it partial with 1 remaining
C5_Witness ==
  /\ last.op = "payDebt"
  /\ last.ret = "true"
  /\ last.amt = 1
  /\ debts[DebtIndex(debts, last.id)].status = "partial"
  /\ debts[DebtIndex(debts, last.id)].amount = 1

\* C6: no payDebt or receiveDebt call, whatever its amount, moves a debt
\* back to pending, and a paid debt stays paid.
C6_StatusOnlyAdvances ==
  [][Settles(last'.op) =>
       \A i \in 1..Len(debts) :
         /\ debts[i].status # "pending" => debts'[i].status # "pending"
         /\ debts[i].status = "paid" => debts'[i].status = "paid"]_vars

\* C7: a payDebt or receiveDebt call never raises a debt's remaining
\* amount, and a debt whose amount a call brought to zero is paid.
C7_AmountNeverRises ==
  [][Settles(last'.op) =>
       \A i \in 1..Len(debts) :
         /\ debts'[i].amount <= debts[i].amount
         /\ (debts'[i].amount = 0 /\ debts[i].amount # 0) =>
              debts'[i].status = "paid"]_vars

\* C8: addDebt with affectBalance changes the balance of the debt's linked
\* account by exactly the debt amount, down for to-me and up for from-me;
\* without affectBalance no account changes.
C8_DebtCreationMovesBalance ==
  [][last'.op = "addDebt" =>
       LET e == debts'[Len(debts')]
       IN /\ (last'.flag /\ e.accountId # Null) =>
               BalanceOf(accounts', e.accountId) =
                 BalanceOf(accounts, e.accountId)
                   + (IF e.type = "to-me" THEN 0 - e.amount ELSE e.amount)
          /\ ~last'.flag => accounts' = accounts]_vars

C10_ContributionMovesAmount ==
  [][(last'.op = "contributeToSavings" /\ last'.ret = "true") =>
       LET g == FindIndex({k \in 1..Len(savings) : savings[k].id = last'.id})
           a == last'.amt
       IN /\ BalanceOf(accounts', last'.acc) = BalanceOf(accounts, last'.acc) - a
          /\ savings'[g].currentAmount = savings[g].currentAmount + a
          /\ BalanceOf(accounts', last'.acc) + savings'[g].currentAmount =
               BalanceOf(accounts, last'.acc) + savings[g].currentAmount
          /\ Others(accounts', last'.acc) = Others(accounts, last'.acc)
          /\ \A j \in 1..Len(savings) : j # g => savings'[j] = savings[j]]_vars

\* C11: two addCategory calls in a row with the same name and type return
\* an entry with the same id, and the second leaves the collection as long
\* as the first left it.
C11_AddCategoryTwiceSameEntry ==
  [][(/\ last.op = "addCategory"
      /\ last'.op = "addCategory"
      /\ last'.ref = last.ref
      /\ last'.flag = last.flag) =>
       /\ last'.id = last.id
       /\ Len(categories') = Len(categories)]_vars

\* C12: no two entries of the people collection have the same name.
C12_PeopleNamesUnique ==
  \A i, j \in 1..Len(people) : i # j => people[i].name # people[j].name

\* the days of the current month, of the month before and of the month after
ThisMonth == 1..31
AdjacentMonths == (0 - 29)..0 \cup 32..61

Range(seq) == {seq[i] : i \in 1..Len(seq)}

\* C13: on the 15th, getTransactionsByPeriod("month") returns every stored
\* transaction dated in the current month and none dated in the month
\* before or the month after.
C13_MonthListsExactlyTheMonth ==
  [][(last'.op = "getTransactionsByPeriod" /\ last'.ref = "month") =>
       \A i \in 1..Len(transactions) :
         /\ transactions[i].date \in ThisMonth =>
              transactions[i] \in Range(last'.out)
         /\ transactions[i].date \in AdjacentMonths =>
              transactions[i] \notin Range(last'.out)]_vars

\* the six stored collections
Collections == <<accounts, transactions, debts, savings, categories, people>>

\* C14: constructing a store again on the same storage (_ensureInit once
\* more) leaves every collection that has a stored value, an empty list
\* included, exactly as it was.
C14_InitIsIdempotent ==
  [][last'.op = "construct" => Collections' = Collections]_vars

\* a store was constructed on a storage whose account list is empty
C14_Witness ==
  /\ last.op = "construct"
  /\ accounts = <<>>
  /\ transactions = <<>>
  /\ Len(categories) > 0

\* an account has that id or that name
Matches(accs, ref) == \E i \in 1..Len(accs) : accs[i].id = ref \/ accs[i].name = ref

\* C15: addTransaction with an account reference that matches no account
\* by id or by name throws, and changes neither the transactions nor any
\* account.
C15_UnknownAccountThrows ==
  [][(last'.op = "addTransaction" /\ ~Matches(accounts, last'.ref)) =>
       /\ last'.ret = "throw"
       /\ transactions' = transactions
       /\ accounts' = accounts]_vars

\* addTransaction threw for an unknown account while a transaction is stored
C15_Witness ==
  /\ last.op = "addTransaction"
  /\ last.ret = "throw"
  /\ ~Matches(accounts, last.ref)
  /\ Len(transactions) > 0
  /\ Len(accounts) > 0

\* C16: updateAccount with an unknown account id, updateSavingsGoal and
\* contributeToSavings with an unknown goal id, payDebt and receiveDebt
\* with an unknown debt id, and contributeToSavings with an unknown account
\* return false and leave the six collections as they were.
C16_UnknownIdReturnsFalse ==
  [][(\/ last'.op = "updateAccount" /\ last'.id \notin Ids(accounts)
      \/ last'.op = "updateSavingsGoal" /\ last'.id \notin Ids(savings)
      \/ last'.op = "contributeToSavings" /\ last'.id \notin Ids(savings)
      \/ last'.op = "contributeToSavings" /\ ~Matches(accounts, last'.ref)
      \/ Settles(last'.op) /\ last'.id \notin Ids(debts)) =>
       /\ last'.ret = "false"
       /\ Collections' = Collections]_vars

\* a contribution to a known goal from an unknown account returned false
C16_Witness ==
  /\ last.op = "contributeToSavings"
  /\ last.ret = "false"
  /\ last.id \in Ids(savings)
  /\ ~Matches(accounts, last.ref)
  /\ Len(accounts) > 0

\* C17: calls started without awaiting the one before end in the state
\* that running them one after the other gives, so no debt entry is lost:
\* once no call is waiting, the entry of every addDebt call that wrote one
\* is among the stored debts.
C17_NoDebtEntryLost ==
  tasks.queue = <<>> =>
    \A n \in 1..tasks.started : DebtId(n) \in Ids(debts)

\* C18: a successful payDebt takes exactly the amount off the balance of
\* the account it resolved, and a successful receiveDebt adds exactly the
\* amount to it, whatever the debt's type, status and remaining amount.
C18_SettlementMovesBalance ==
  [][(Settles(last'.op) /\ last'.ret = "true") =>
       BalanceOf(accounts', last'.acc) =
         BalanceOf(accounts, last'.acc)
           + (IF last'.op = "payDebt" THEN 0 - last'.amt ELSE last'.amt)]_vars

\* the account a settlement falls back to: the one the debt was linked to
\* when it was created, looked up by id and then by name
LinkedAccount(accs, d) ==
  IF d.accountId = Null \/ ~Matches(accs, d.accountId) THEN Null
  ELSE IF d.accountId \in Ids(accs) THEN d.accountId
  ELSE accs[CHOOSE i \in 1..Len(accs) :
              /\ accs[i].name = d.accountId
              /\ \A j \in 1..Len(accs) : accs[j].name = d.accountId => i <= j].id

\* C19 as stated: payDebt and receiveDebt return false and change no
\* account and no debt whenever the account reference handed to them
\* matches no account by id or by name.
C19_UnknownReferenceFails ==
  [][(Settles(last'.op) /\ ~Matches(accounts, last'.ref)) =>
       /\ last'.ret = "false"
       /\ accounts' = accounts
       /\ debts' = debts]_vars

\* C19, amended: on an existing debt, payDebt and receiveDebt return false
\* and change no account and no debt exactly when the reference handed to
\* them matches no account and the debt is linked to no account that can
\* be found; when only the reference matches nothing, they return true and
\* settle against the debt's linked account.
C19_UnresolvedAccountFails ==
  [][(Settles(last'.op) /\ last'.id \in Ids(debts)) =>
       LET d == debts[DebtIndex(debts, last'.id)]
           linked == LinkedAccount(accounts, d)
       IN IF Matches(accounts, last'.ref)
          THEN last'.ret = "true"
          ELSE IF linked = Null
               THEN /\ last'.ret = "false"
                    /\ accounts' = accounts
                    /\ debts' = debts
               ELSE /\ last'.ret = "true"
                    /\ last'.acc = linked]_vars

\* a settlement of a debt linked to no account, with a reference that
\* matches no account, returned false
C19_Witness ==
  /\ Settles(last.op)
  /\ last.ret = "false"
  /\ last.id \in Ids(debts)
  /\ ~Matches(accounts, last.ref)
  /\ LinkedAccount(accounts, debts[DebtIndex(debts, last.id)]) = Null

\* C20: every stored transaction has a strictly positive amount, whatever
\* amount addTransaction was handed.
C20_AmountsPositive ==
  \A i \in 1..Len(transactions) : transactions[i].amount > 0

\* a call that was asked to move the balance of the account it resolved
MovesBalance(call) ==
  \/ call.op = "addTransaction" /\ call.ret = "ok"
  \/ call.op = "addDebt" /\ call.ret = "ok" /\ call.flag /\ call.acc # Null
  \/ call.op \in {"payDebt", "receiveDebt", "contributeToSavings"} /\ call.ret = "true"

\* C21: a balance-changing operation writes the balance of the account it
\* resolved with _findAccount and leaves the balance of every other
\* account as it was, also when an account's name is another account's id
\* or accounts share a name.
C21_SetterWritesResolvedAccount ==
  [][MovesBalance(last') =>
       /\ Len(accounts') = Len(accounts)
       /\ \A i \in 1..Len(accounts) :
            accounts[i].id # last'.acc => accounts'[i].balance = accounts[i].balance]_vars

\* updateAccount found the account it was asked to update
Updates(call) == call.op = "updateAccount" /\ call.ret = "true"

\* where the account of a call about an account sits in the list
AccountIndex(accs, id) == FindIndex({k \in 1..Len(accs) : accs[k].id = id})

====
